---- MODULE Spec2Model ----
(***************************************************************************)
(* A model of abz/acousticbrainz.py: the single-file / directory pipeline  *)
(* (process, process_directory, process_file) and the dataset pipeline     *)
(* (generate_dataset, scan_dir, _dataset_item_extractor,                   *)
(* submit_dataset_item, submit_dataset).                                   *)
(*                                                                         *)
(* The program is sequential.  Its positions are the blocking calls: the   *)
(* extractor child process and the HTTP requests.  Each action is the code *)
(* that runs from one blocking call to the next; the environment (the      *)
(* extractor's exit status and output file, the server's answer, a         *)
(* Ctrl-C) is chosen with \E.                                              *)
(***************************************************************************)
EXTENDS Integers, Sequences, FiniteSets, TLC

\* ------------------------------------------------------------------ bounds
\* number of times the extractor is started, over all the runs of the program
\* (the ledger and the disk outlive a run)
MaxExtractions == 3
\* longest list held by the musicbrainz_trackid tag
MaxTags == 2

\* ------------------------------------------------------- strings, uuid.UUID
\* Strings are sequences of one-character strings, so that uuid.UUID can be
\* computed on them the way the library computes it.
HexDigits ==
    {"0", "1", "2", "3", "4", "5", "6", "7", "8", "9",
     "a", "b", "c", "d", "e", "f", "A", "B", "C", "D", "E", "F"}

Whitespace == {" "}

\* length of the hexadecimal form uuid.UUID requires
UuidHexLen == 32

StartsWith(s, p) == Len(s) >= Len(p) /\ SubSeq(s, 1, Len(p)) = p

\* str.replace(p, '')
RECURSIVE RemoveAll(_, _)
RemoveAll(s, p) ==
    IF s = <<>> THEN <<>>
    ELSE IF StartsWith(s, p) THEN RemoveAll(SubSeq(s, Len(p) + 1, Len(s)), p)
    ELSE <<Head(s)>> \o RemoveAll(Tail(s), p)

RECURSIVE LStrip(_, _)
LStrip(s, cs) == IF s # <<>> /\ Head(s) \in cs THEN LStrip(Tail(s), cs) ELSE s

RECURSIVE RStrip(_, _)
RStrip(s, cs) ==
    IF s # <<>> /\ s[Len(s)] \in cs THEN RStrip(SubSeq(s, 1, Len(s) - 1), cs) ELSE s

\* str.strip(cs)
Strip(s, cs) == RStrip(LStrip(s, cs), cs)

\* int(s, 16) returns (TRUE) or raises ValueError (FALSE): surrounding
\* whitespace, one sign, an optional 0x prefix, then hexadecimal digits that
\* single underscores may separate.
IntParses16(s) ==
    LET t == Strip(s, Whitespace)
        u == IF t # <<>> /\ Head(t) \in {"+", "-"} THEN Tail(t) ELSE t
        hasPrefix == Len(u) >= 2 /\ u[1] = "0" /\ u[2] \in {"x", "X"}
        v == IF hasPrefix THEN SubSeq(u, 3, Len(u)) ELSE u
        w == IF hasPrefix /\ v # <<>> /\ Head(v) = "_" THEN Tail(v) ELSE v
    IN  /\ w # <<>>
        /\ w[1] \in HexDigits
        /\ w[Len(w)] \in HexDigits
        /\ \A i \in 1..Len(w) : w[i] \in HexDigits \cup {"_"}
        /\ \A i \in 1..(Len(w) - 1) : ~(w[i] = "_" /\ w[i + 1] = "_")

\* the hexadecimal form uuid.UUID(u) parses
UuidHex(u) ==
    LET h1 == RemoveAll(RemoveAll(u, <<"u", "r", "n", ":">>), <<"u", "u", "i", "d", ":">>)
    IN  RemoveAll(Strip(h1, {"{", "}"}), <<"-">>)

\* a mutant: no string is rejected
is_valid_uuid_always(u) == TRUE

\* uuid.UUID(u) returns (TRUE) or raises ValueError (FALSE)
is_valid_uuid(u) == Len(UuidHex(u)) = UuidHexLen /\ IntParses16(UuidHex(u))

\* "123e4567-e89b-12d3-a456-426614174000"
UuidA ==
    <<"1", "2", "3", "e", "4", "5", "6", "7", "-", "e", "8", "9", "b", "-",
      "1", "2", "d", "3", "-", "a", "4", "5", "6", "-",
      "4", "2", "6", "6", "1", "4", "1", "7", "4", "0", "0", "0">>

\* "urn:uuid:{0F0F0F0F0F0F0F0F0F0F0F0F0F0F0F0F}"
UuidB ==
    <<"u", "r", "n", ":", "u", "u", "i", "d", ":", "{",
      "0", "F", "0", "F", "0", "F", "0", "F", "0", "F", "0", "F", "0", "F", "0", "F",
      "0", "F", "0", "F", "0", "F", "0", "F", "0", "F", "0", "F", "0", "F", "0", "F",
      "}">>

\* "not-a-uuid"
NotAUuid == <<"n", "o", "t", "-", "a", "-", "u", "u", "i", "d">>

\* the strings the musicbrainz_trackid tag is made of
TagStrings == {UuidA, UuidB, NotAUuid}

RECURSIVE SeqsUpTo(_, _)
SeqsUpTo(S, n) ==
    IF n = 0 THEN {<<>>}
    ELSE LET shorter == SeqsUpTo(S, n - 1)
         IN  shorter \cup {Append(s, x) : s \in {t \in shorter : Len(t) = n - 1}, x \in S}

\* ------------------------------------------------------------ the file tree
\* What os.walk yields, top-down, for the directory the runs are given: the
\* root with one file, two class directories with files and an empty one.
RootDir == <<"ds">>

Walk ==
    << [dirName |-> <<"ds">>,      fileNames |-> << <<"r", ".", "m", "p", "3">> >>],
       [dirName |-> <<"ds", "a">>, fileNames |-> << <<"x", ".", "m", "p", "3">>,
                                                    <<"y", ".", "M", "P", "3">> >>],
       [dirName |-> <<"ds", "b">>, fileNames |-> << <<"z", ".", "t", "x", "t">> >>],
       [dirName |-> <<"ds", "c">>, fileNames |-> << >>] >>

\* os.path.join(dirName, fileName)
join(dirName, fileName) == [dir |-> dirName, name |-> fileName]

\* os.path.basename(dirName)
basename(dirName) == dirName[Len(dirName)]

AllFiles ==
    UNION {{join(Walk[d].dirName, Walk[d].fileNames[f]) : f \in 1..Len(Walk[d].fileNames)} :
        d \in 1..Len(Walk)}

\* str.lower(), on the characters the file names hold
LowerChar(c) ==
    CASE c = "M" -> "m"
      [] c = "P" -> "p"
      [] OTHER -> c

lower(s) == [i \in 1..Len(s) |-> LowerChar(s[i])]

\* str.endswith(suffixes), suffixes a tuple of strings
endswith(s, suffixes) ==
    \E x \in suffixes : Len(s) >= Len(x) /\ SubSeq(s, Len(s) - Len(x) + 1, Len(s)) = x

\* config.settings["extensions"]
Extensions == {<<"m", "p", "3">>}

\* a mutant: the extension is compared as it is spelled
HasExtension_nolower(f) == endswith(f, Extensions)

HasExtension(f) == endswith(lower(f), Extensions)

\* the paths process_directory hands to process_file, in os.walk's order
RECURSIVE DirectoryFiles(_, _)
DirectoryFiles(d, f) ==
    IF d > Len(Walk) THEN <<>>
    ELSE IF f > Len(Walk[d].fileNames) THEN DirectoryFiles(d + 1, 1)
    ELSE IF HasExtension(Walk[d].fileNames[f])
         THEN <<join(Walk[d].dirName, Walk[d].fileNames[f])>> \o DirectoryFiles(d, f + 1)
         ELSE DirectoryFiles(d, f + 1)

\* the command-line argument of a run: a path that does not exist, one of the
\* files, or the root directory
Args ==
    {[type |-> "missing"]} \cup {[type |-> "file", path |-> p] : p \in AllFiles}
        \cup {[type |-> "dir", dir |-> RootDir]}

\* ------------------------------------------------------------- the ledger
NoReason == "None"

Reasons == {NoReason, "nombid", "extractor", "json"}

\* table filelog has no key and no order: a bag of rows
LedgerRows == AllFiles \X Reasons

EmptyLedger == [row \in LedgerRows |-> 0]

\* the number of rows of a path
RowsOf(fl, filepath) ==
    fl[<<filepath, NoReason>>] + fl[<<filepath, "nombid">>]
        + fl[<<filepath, "extractor">>] + fl[<<filepath, "json">>]

\* a mutant: the row is not inserted
add_to_filelist_dropped(fl, filepath, reason) == fl

\* insert into filelog(filename, reason) values(?, ?)
add_to_filelist(fl, filepath, reason) == [fl EXCEPT ![<<filepath, reason>>] = @ + 1]

\* a mutant: only rows of successes count
is_processed_successonly(fl, filepath) == fl[<<filepath, NoReason>>] > 0

\* select * from filelog where filename = ?, and len(r.fetchall())
is_processed(fl, filepath) == \E reason \in Reasons : fl[<<filepath, reason>>] > 0

\* ------------------------------------------------------------ the temp file
NoTmp == 0

\* the extractor child process has written its output file, or has not
Written(disk, name, created) == IF created THEN disk \cup {name} ELSE disk

\* a mutant: the file is left on disk
unlink_if_file_kept(disk, name) == disk

\* if os.path.isfile(tmpname): os.unlink(tmpname)
unlink_if_file(disk, name) == disk \ {name}

\* ------------------------------------------------------ the environment
\* exit statuses of the extractor: 0, 1, 2, and others of both signs
Retcodes == {-1, 0, 1, 2, 3}

\* the output file of the extractor: text json.load rejects, a document
\* without the metadata/tags/musicbrainz_trackid key, or a document whose tag
\* is one string or a list of strings
Docs ==
    {[kind |-> "malformed"], [kind |-> "nokey"]}
        \cup {[kind |-> "tags", islist |-> FALSE, value |-> s] : s \in TagStrings}
        \cup {[kind |-> "tags", islist |-> TRUE, value |-> l] : l \in SeqsUpTo(TagStrings, MaxTags)}

NoDoc == [kind |-> "none"]

\* no identifier (the empty string is no valid UUID)
NoRecid == <<>>

\* the output file of a dataset item: submit_dataset_item only parses it
ItemDocs == {[kind |-> "malformed"], [kind |-> "json"]}

\* the content of the output file is read only after exit status 0, when the
\* file exists: elsewhere it is not enumerated
OutputOf(status, created, docs) == IF status = 0 /\ created THEN docs ELSE {NoDoc}

NoResponse == [kind |-> "none"]

\* what the server and the requests library answer to submit_features: a
\* status, a transport error (ConnectionError, Timeout), or InvalidURL for a
\* bad host setting (a ValueError)
FeatureResponses ==
    {[kind |-> "status", code |-> c] : c \in {200, 304, 404}}
        \cup {[kind |-> "ConnectionError"], [kind |-> "InvalidURL"]}

ItemUuids == {"u1", "u2"}

\* what they answer to submit_dataset_item: a status and a body, or an
\* exception.  The body is what json.loads(r.json) and the ['itemuuid'] lookup
\* make of it: an identifier ("uuid"), a document without the key ("nokey":
\* KeyError), or no document ("unparsable": TypeError, ValueError).
ItemResponses ==
    {[kind |-> "status", code |-> 200, body |-> "uuid", itemuuid |-> u] : u \in ItemUuids}
        \cup {[kind |-> "status", code |-> 200, body |-> b, itemuuid |-> ""] :
                 b \in {"nokey", "unparsable"}}
        \cup {[kind |-> "status", code |-> c, body |-> "uuid", itemuuid |-> "u1"] :
                 c \in {201, 500}}
        \cup {[kind |-> "HTTPError"], [kind |-> "ConnectionError"]}

\* what they answer to submit_dataset
ManifestResponses ==
    {[kind |-> "status", code |-> c, body |-> b] : c \in {200, 500}, b \in {"json", "notjson"}}
        \cup {[kind |-> "HTTPError"], [kind |-> "ConnectionError"]}

\* ------------------------------------------------------------------ state
VARIABLES
    filelog,          \* the rows of table filelog
    tmpfiles,         \* the temporary files that exist on disk
    ntmp,             \* how many times the extractor has been started
    mode,             \* the run: "none", "file", "directory", "dataset"
    pc,               \* the position of the program
    exit,             \* how the last run ended
    todo,             \* process_directory: the files still to visit
    filepath,         \* the file being handled
    tmpname,          \* its temporary output file
    retcode,          \* the exit status of the extractor: <<>> or <<status>>
    features,         \* the parsed output file
    recid,            \* process_file: the identifier the features are submitted under
    response,         \* the answer to the file's HTTP request
    outcome,          \* how the handling of the file ended
    datasetdict,      \* scan_dir: the manifest
    tmpdict,          \* scan_dir: the class being filled
    di, fi,           \* scan_dir: the directory and the file os.walk is at
    itemUuidsGot,     \* this run's identifiers returned by submit_dataset_item
    manifestPosts     \* this run's requests to /api/v1/datasets

vars ==
    <<filelog, tmpfiles, ntmp, mode, pc, exit, todo, filepath, tmpname, retcode,
      features, recid, response, outcome, datasetdict, tmpdict, di, fi,
      itemUuidsGot, manifestPosts>>

diskVars == <<filelog, tmpfiles, ntmp>>
datasetVars == <<datasetdict, tmpdict, di, fi, itemUuidsGot, manifestPosts>>

NoPath == [dir |-> <<>>, name |-> <<>>]
NoDict == [name |-> "", description |-> "", recordings |-> <<>>]

\* _datasetdict_structure
datasetdict_structure(dataset_name) ==
    [name |-> dataset_name, description |-> "", public |-> "true", classes |-> <<>>]

Init ==
    /\ filelog = EmptyLedger
    /\ tmpfiles = {}
    /\ ntmp = 0
    /\ mode = "none"
    /\ pc = "idle"
    /\ exit = "none"
    /\ todo = <<>>
    /\ filepath = NoPath
    /\ tmpname = NoTmp
    /\ retcode = <<>>
    /\ features = NoDoc
    /\ recid = NoRecid
    /\ response = NoResponse
    /\ outcome = "none"
    /\ datasetdict = datasetdict_structure("")
    /\ tmpdict = NoDict
    /\ di = 0
    /\ fi = 0
    /\ itemUuidsGot = <<>>
    /\ manifestPosts = 0

\* the locals of the handling of one file, before the extractor has exited
NewFile(path) ==
    /\ filepath' = path
    /\ retcode' = <<>>
    /\ features' = NoDoc
    /\ recid' = NoRecid
    /\ response' = NoResponse

\* a run starts: a new process, whose memory holds nothing of the run before;
\* the ledger and the disk are what the earlier runs left
StartRun(m) ==
    /\ mode' = m
    /\ NewFile(NoPath)
    /\ tmpname' = NoTmp
    /\ outcome' = "none"
    /\ datasetdict' = datasetdict_structure("")
    /\ tmpdict' = NoDict
    /\ itemUuidsGot' = <<>>
    /\ manifestPosts' = 0
    /\ UNCHANGED diskVars

\* the run is over: the process exits, normally ("ok"), by sys.exit
\* ("sysexit"), by an exception nothing catches ("raised") or by
\* KeyboardInterrupt ("interrupt")
EndRun(how) ==
    /\ pc' = "idle"
    /\ exit' = how

\* -------------------------------------------- the single-file pipeline
\* process(path)
Process(arg) ==
    /\ pc = "idle"
    /\ StartRun(IF arg.type = "dir" THEN "directory" ELSE "file")
    /\ di' = 0
    /\ fi' = 0
    /\ IF arg.type = "missing"
       THEN /\ EndRun("sysexit")
            /\ todo' = <<>>
       ELSE /\ pc' = "walking"
            /\ exit' = "none"
            /\ todo' = IF arg.type = "file" THEN <<arg.path>> ELSE DirectoryFiles(1, 1)

\* the name tempfile.mkstemp picks: one no file on disk has.  Names are
\* numbered, and the lowest free one stands for any of them.
FreshName(disk) ==
    CHOOSE n \in 1..(Cardinality(disk) + 1) : n \notin disk /\ \A m \in 1..(n - 1) : m \in disk

\* tempfile.mkstemp, os.close, os.unlink: a fresh name, and no file under it
mkstemp ==
    /\ ntmp' = ntmp + 1
    /\ tmpname' = FreshName(tmpfiles)
    /\ tmpfiles' = (tmpfiles \cup {FreshName(tmpfiles)}) \ {FreshName(tmpfiles)}

\* process_file(filepath), to the start of the extractor
ProcessFileCall ==
    /\ pc = "walking"
    /\ todo # <<>>
    /\ NewFile(Head(todo))
    /\ todo' = Tail(todo)
    /\ IF is_processed(filelog, Head(todo))
       THEN /\ outcome' = "skip"
            /\ tmpname' = NoTmp
            /\ UNCHANGED <<pc, ntmp, tmpfiles>>
       ELSE /\ ntmp < MaxExtractions
            /\ mkstemp
            /\ outcome' = "none"
            /\ pc' = "extracting"
    /\ UNCHANGED <<filelog, mode, exit, datasetVars>>

\* a mutant: the branches of exit statuses 1 and 2 are exchanged
Classify_swapped(status) ==
    IF status = 2 THEN "extractor"
    ELSE IF status = 1 THEN "nombid"
    ELSE IF status > 0 \/ status < 0 THEN "unknown"
    ELSE "proceed"

\* the if / elif chain on retcode of process_file
Classify(status) ==
    IF status = 2 THEN "nombid"
    ELSE IF status = 1 THEN "extractor"
    ELSE IF status > 0 \/ status < 0 THEN "unknown"
    ELSE "proceed"

\* if not isinstance(recordingids, list): recordingids = [recordingids]
AsList(doc) == IF doc.islist THEN doc.value ELSE <<doc.value>>

\* a mutant: the entries are not filtered
ValidIds_all(ids) == ids

\* recs = [r for r in recordingids if is_valid_uuid(r)]
ValidIds(ids) == SelectSeq(ids, is_valid_uuid)

\* a mutant: the last valid entry is taken
RecordingId_last(doc) ==
    LET recs == ValidIds(AsList(doc))
    IN  IF recs # <<>> THEN recs[Len(recs)] ELSE NoRecid

\* recid = recs[0] if recs holds an entry: the identifier process_file submits
\* the features under, or none
RecordingId(doc) ==
    LET recs == ValidIds(AsList(doc))
    IN  IF recs # <<>> THEN recs[1] ELSE NoRecid

\* RecordingId, tabulated over the documents that hold the tag
RecordingIdOf == [doc \in {d \in Docs : d.kind = "tags"} |-> RecordingId(doc)]

\* process_file reaches its last statement: the temporary file is removed
FileEnd(how, fl, disk) ==
    /\ filelog' = fl
    /\ tmpfiles' = unlink_if_file(disk, tmpname)
    /\ outcome' = how
    /\ pc' = "walking"
    /\ UNCHANGED exit

\* an exception leaves process_file, process_directory and process
FileRaise(how, disk) ==
    /\ tmpfiles' = disk
    /\ outcome' = how
    /\ EndRun(how)
    /\ UNCHANGED filelog

\* a mutant: an unknown exit status is logged
UnknownLedger_logged(fl, path) == add_to_filelist(fl, path, "extractor")

\* the branch of the unknown exit statuses: output is printed, no row
UnknownLedger(fl, path) == fl

\* a mutant: a missing output file is logged
NoFileLedger_logged(fl, path) == add_to_filelist(fl, path, "extractor")

\* exit status 0 and no output file: nothing is done
NoFileLedger(fl, path) == fl

\* a mutant: a document without a valid identifier is logged as a success
BadMbidLedger_logged(fl, path) == add_to_filelist(fl, path, NoReason)

\* the else branch of "if recs": a progress line, no row
BadMbidLedger(fl, path) == fl

\* process_file, from the exit of the extractor to submit_features or the end
ExtractorExit(status, created, doc) ==
    /\ pc = "extracting"
    /\ retcode' = <<status>>
    /\ LET disk == Written(tmpfiles, tmpname, created)
           class == Classify(status)
       IN  IF class = "nombid"
           THEN /\ FileEnd("nombid", add_to_filelist(filelog, filepath, "nombid"), disk)
                /\ UNCHANGED <<features, recid>>
           ELSE IF class = "extractor"
           THEN /\ FileEnd("extractor", add_to_filelist(filelog, filepath, "extractor"), disk)
                /\ UNCHANGED <<features, recid>>
           ELSE IF class = "unknown"
           THEN /\ FileEnd("unknown", UnknownLedger(filelog, filepath), disk)
                /\ UNCHANGED <<features, recid>>
           ELSE IF ~(tmpname \in disk)
           THEN /\ FileEnd("nofile", NoFileLedger(filelog, filepath), disk)
                /\ UNCHANGED <<features, recid>>
           ELSE IF doc.kind = "malformed"
           THEN /\ FileEnd("json", add_to_filelist(filelog, filepath, "json"), disk)
                /\ UNCHANGED <<features, recid>>
           ELSE IF doc.kind = "nokey"
           THEN /\ FileRaise("raised", disk)
                /\ features' = doc
                /\ UNCHANGED recid
           ELSE IF RecordingIdOf[doc] # NoRecid
           THEN /\ features' = doc
                /\ recid' = RecordingIdOf[doc]
                /\ pc' = "submitting"
                /\ tmpfiles' = disk
                /\ UNCHANGED <<filelog, outcome, exit>>
           ELSE /\ FileEnd("badmbid", BadMbidLedger(filelog, filepath), disk)
                /\ features' = doc
                /\ UNCHANGED recid
    /\ UNCHANGED <<ntmp, mode, todo, filepath, tmpname, response, datasetVars>>

\* a mutant: raise_for_status is not called
submit_features_nocheck(resp) == IF resp.kind = "status" THEN "returns" ELSE resp.kind

\* submit_features once requests.post has an answer: it returns, or
\* raise_for_status raises HTTPError for a status from 400 to 599, or the
\* exception of requests.post goes on
submit_features(resp) ==
    IF resp.kind = "status"
    THEN IF resp.code >= 400 /\ resp.code < 600 THEN "HTTPError" ELSE "returns"
    ELSE resp.kind

\* a mutant: the success row is written only when the submission succeeded
SubmitLedger_onlyok(fl, path, result) ==
    IF result = "returns" THEN add_to_filelist(fl, path, NoReason)
    ELSE IF result = "InvalidURL" THEN add_to_filelist(fl, path, "json")
    ELSE fl

\* the row process_file writes once submit_features has returned or raised
\* HTTPError (a success row), or raised a ValueError (a "json" row)
SubmitLedger(fl, path, result) ==
    IF result \in {"returns", "HTTPError"} THEN add_to_filelist(fl, path, NoReason)
    ELSE IF result = "InvalidURL" THEN add_to_filelist(fl, path, "json")
    ELSE fl

\* process_file, from the answer to submit_features to the end
SubmitResponse(resp) ==
    /\ pc = "submitting"
    /\ response' = resp
    /\ IF submit_features(resp) = "ConnectionError"
       THEN FileRaise("raised", tmpfiles)
       ELSE FileEnd(CASE submit_features(resp) = "returns" -> "done"
                      [] submit_features(resp) = "HTTPError" -> "submit_failed"
                      [] OTHER -> "json",
                    SubmitLedger(filelog, filepath, submit_features(resp)), tmpfiles)
    /\ UNCHANGED <<ntmp, mode, todo, filepath, tmpname, retcode, features, recid, datasetVars>>

\* Ctrl-C while the extractor runs under process_file: KeyboardInterrupt
\* leaves process_file; the child may have written its output file
InterruptFile(created) ==
    /\ pc = "extracting"
    /\ FileRaise("interrupt", Written(tmpfiles, tmpname, created))
    /\ UNCHANGED <<ntmp, mode, todo, filepath, tmpname, retcode, features, recid, response,
                   datasetVars>>

\* process_directory's loop, or process, has no file left
ProcessReturn ==
    /\ pc = "walking"
    /\ todo = <<>>
    /\ EndRun("ok")
    /\ UNCHANGED <<diskVars, mode, todo, filepath, tmpname, retcode, features, recid,
                   response, outcome, datasetVars>>

\* ------------------------------------------------- the dataset pipeline
\* generate_dataset(path), to the start of scan_dir's walk
GenerateDataset(arg) ==
    /\ pc = "idle"
    /\ mode' = "dataset"
    /\ NewFile(NoPath)
    /\ tmpname' = NoTmp
    /\ outcome' = "none"
    /\ tmpdict' = NoDict
    /\ itemUuidsGot' = <<>>
    /\ manifestPosts' = 0
    /\ todo' = <<>>
    /\ IF arg.type # "dir"
       THEN /\ EndRun("sysexit")
            /\ datasetdict' = datasetdict_structure("")
            /\ di' = 0
            /\ fi' = 0
       ELSE /\ pc' = "scanning"
            /\ exit' = "none"
            /\ datasetdict' = datasetdict_structure(basename(arg.dir))
            /\ di' = 1
            /\ fi' = 1
    /\ UNCHANGED diskVars

\* tmpdict = {"name": subdir, "description": "", "recordings": []}
NewClass(dirName) == [name |-> basename(dirName), description |-> "", recordings |-> <<>>]

\* a mutant: every class is added to the manifest
AddClass_always(dd, td) == [dd EXCEPT !.classes = Append(@, td)]

\* if len(tmpdict['recordings'])>0: datasetdict['classes'].append(tmpdict)
AddClass(dd, td) ==
    IF Len(td.recordings) > 0 THEN [dd EXCEPT !.classes = Append(@, td)] ELSE dd

\* a mutant: the files of the root are taken for a class
IsClassDir_root(dirName) == TRUE

\* if dirName != path
IsClassDir(dirName) == dirName # RootDir

\* a mutant: the files that have a row in the ledger are passed over
RECURSIVE NextItem_ledger(_, _, _, _)
NextItem_ledger(d, f, dd, td) ==
    IF d > Len(Walk) THEN [done |-> TRUE, di |-> d, fi |-> f, dd |-> dd, td |-> td]
    ELSE IF ~IsClassDir(Walk[d].dirName) THEN NextItem_ledger(d + 1, 1, dd, td)
    ELSE LET td1 == IF f = 1 THEN NewClass(Walk[d].dirName) ELSE td
         IN  IF f <= Len(Walk[d].fileNames)
             THEN IF is_processed(filelog, join(Walk[d].dirName, Walk[d].fileNames[f]))
                  THEN NextItem_ledger(d, f + 1, dd, td1)
                  ELSE [done |-> FALSE, di |-> d, fi |-> f, dd |-> dd, td |-> td1]
             ELSE NextItem_ledger(d + 1, 1, AddClass(dd, td1), td1)

\* scan_dir's two loops from file f of directory d on, to the next file to
\* extract or to the end of the walk
RECURSIVE NextItem(_, _, _, _)
NextItem(d, f, dd, td) ==
    IF d > Len(Walk) THEN [done |-> TRUE, di |-> d, fi |-> f, dd |-> dd, td |-> td]
    ELSE IF ~IsClassDir(Walk[d].dirName) THEN NextItem(d + 1, 1, dd, td)
    ELSE LET td1 == IF f = 1 THEN NewClass(Walk[d].dirName) ELSE td
         IN  IF f <= Len(Walk[d].fileNames)
             THEN [done |-> FALSE, di |-> d, fi |-> f, dd |-> dd, td |-> td1]
             ELSE NextItem(d + 1, 1, AddClass(dd, td1), td1)

\* a mutant: the manifest is submitted whatever it holds
ShouldSubmit_always(dd) == TRUE

\* if len(datasetdict['classes'])>0
ShouldSubmit(dd) == Len(dd.classes) > 0

\* scan_dir goes on to the next file and starts the extractor on it; at the
\* end of the walk generate_dataset submits the manifest or reports it empty
ScanStep ==
    /\ pc = "scanning"
    /\ LET nx == NextItem(di, fi, datasetdict, tmpdict)
       IN  /\ di' = nx.di
           /\ fi' = nx.fi
           /\ datasetdict' = nx.dd
           /\ tmpdict' = nx.td
           /\ IF nx.done
              THEN /\ IF ShouldSubmit(nx.dd)
                      THEN /\ pc' = "manifest_submitting"
                           /\ manifestPosts' = manifestPosts + 1
                           /\ UNCHANGED <<exit, outcome>>
                      ELSE /\ EndRun("ok")
                           /\ outcome' = "empty classes"
                           /\ UNCHANGED manifestPosts
                   /\ UNCHANGED <<filepath, tmpname, retcode, features, recid, response,
                                  ntmp, tmpfiles>>
              ELSE /\ ntmp < MaxExtractions
                   /\ NewFile(join(Walk[nx.di].dirName, Walk[nx.di].fileNames[nx.fi]))
                   /\ mkstemp
                   /\ pc' = "item_extracting"
                   /\ outcome' = "none"
                   /\ UNCHANGED <<exit, manifestPosts>>
    /\ UNCHANGED <<filelog, mode, todo, itemUuidsGot>>

\* scan_dir is done with the file: on to the next one
ItemEnd(how, disk) ==
    /\ tmpfiles' = disk
    /\ outcome' = how
    /\ pc' = "scanning"
    /\ fi' = fi + 1
    /\ UNCHANGED <<exit, di, datasetdict>>

\* the run ends inside scan_dir, by an exception or by sys.exit
ItemAbort(how, disk) ==
    /\ tmpfiles' = disk
    /\ outcome' = how
    /\ EndRun(how)
    /\ UNCHANGED <<di, fi, datasetdict, tmpdict>>

\* a mutant: the temporary file is returned whatever the exit status was
ExtractorOutput_anystatus(status, disk, name) == IF name \in disk THEN name ELSE NoTmp

\* what _dataset_item_extractor returns: tmpname, or None
ExtractorOutput(status, disk, name) ==
    IF status = 1 THEN NoTmp
    ELSE IF status < 0 \/ status > 0 THEN NoTmp
    ELSE IF name \in disk THEN name
    ELSE NoTmp

\* the row _dataset_item_extractor writes for exit status 1
ItemLedger(fl, path, status) ==
    IF status = 1 THEN add_to_filelist(fl, path, "extractor") ELSE fl

\* _dataset_item_extractor from the exit of the extractor, and scan_dir to the
\* request of submit_dataset_item or to the end of the file's handling
ItemExtractorExit(status, created, doc) ==
    /\ pc = "item_extracting"
    /\ retcode' = <<status>>
    /\ filelog' = ItemLedger(filelog, filepath, status)
    /\ LET disk == Written(tmpfiles, tmpname, created)
           extractor_output == ExtractorOutput(status, disk, tmpname)
       IN  IF extractor_output = NoTmp
           THEN /\ ItemEnd(IF status = 1 THEN "extractor"
                           ELSE IF status # 0 THEN "unknown" ELSE "nofile", disk)
                /\ UNCHANGED <<tmpdict, features>>
           ELSE IF doc.kind = "malformed"
           THEN /\ ItemEnd("json format", disk \ {extractor_output})
                /\ UNCHANGED <<tmpdict, features>>
           ELSE /\ pc' = "item_submitting"
                /\ features' = doc
                /\ tmpfiles' = disk
                /\ UNCHANGED <<exit, outcome, di, fi, datasetdict, tmpdict>>
    /\ UNCHANGED <<ntmp, mode, todo, filepath, tmpname, recid, response, itemUuidsGot,
                   manifestPosts>>

\* a mutant: every answered request yields an identifier
ItemResult_anystatus(resp) ==
    IF resp.kind = "status" /\ resp.body = "uuid" THEN "itemuuid"
    ELSE IF resp.kind = "status" /\ resp.code = 200 THEN "raise"
    ELSE IF resp.kind = "ConnectionError" THEN "raise"
    ELSE "None"

\* submit_dataset_item from the answer on, and scan_dir's ['itemuuid']:
\* an identifier, None, or an exception nothing catches
ItemResult(resp) ==
    IF resp.kind = "status" /\ resp.code = 200
    THEN IF resp.body = "uuid" THEN "itemuuid" ELSE "raise"
    ELSE IF resp.kind = "status" THEN "None"
    ELSE IF resp.kind = "HTTPError" THEN "None"
    ELSE "raise"

\* scan_dir from the answer to submit_dataset_item to the end of the file's
\* handling
ItemSubmitResponse(resp) ==
    /\ pc = "item_submitting"
    /\ response' = resp
    /\ IF ItemResult(resp) = "raise"
       THEN /\ ItemAbort("raised", tmpfiles)
            /\ UNCHANGED itemUuidsGot
       ELSE IF ItemResult(resp) = "itemuuid"
       THEN /\ tmpdict' = [tmpdict EXCEPT !.recordings = Append(@, resp.itemuuid)]
            /\ itemUuidsGot' =
                   Append(itemUuidsGot, [path |-> filepath, itemuuid |-> resp.itemuuid])
            /\ ItemEnd("Get UUID", tmpfiles \ {tmpname})
       ELSE /\ ItemEnd("NoUUID", tmpfiles \ {tmpname})
            /\ UNCHANGED <<tmpdict, itemUuidsGot>>
    /\ UNCHANGED <<filelog, ntmp, mode, todo, filepath, tmpname, retcode, features, recid,
                   manifestPosts>>

\* Ctrl-C while the extractor runs under _dataset_item_extractor: the
\* except clause prints and calls sys.exit(1)
InterruptItem(created) ==
    /\ pc = "item_extracting"
    /\ ItemAbort("interrupt", Written(tmpfiles, tmpname, created))
    /\ UNCHANGED <<filelog, ntmp, mode, todo, filepath, tmpname, retcode, features, recid,
                   response, itemUuidsGot, manifestPosts>>

\* submit_dataset from the answer on (r.json() raises ValueError on a body
\* that is no JSON): the run ends
ManifestResponse(resp) ==
    /\ pc = "manifest_submitting"
    /\ response' = resp
    /\ IF resp.kind = "ConnectionError" \/ (resp.kind = "status" /\ resp.body = "notjson")
       THEN /\ EndRun("raised")
            /\ outcome' = "raised"
       ELSE /\ EndRun("ok")
            /\ outcome' = IF resp.kind = "status" THEN "Dataset" ELSE "Dataset problem"
    /\ UNCHANGED <<diskVars, mode, todo, filepath, tmpname, retcode, features, recid,
                   datasetVars>>

\* --------------------------------------------------------- specification
Next ==
    \/ \E arg \in Args : Process(arg)
    \/ ProcessFileCall
    \/ \E status \in Retcodes, created \in BOOLEAN :
           \E doc \in OutputOf(status, created, Docs) : ExtractorExit(status, created, doc)
    \/ \E resp \in FeatureResponses : SubmitResponse(resp)
    \/ \E created \in BOOLEAN : InterruptFile(created)
    \/ ProcessReturn
    \/ \E arg \in Args : GenerateDataset(arg)
    \/ ScanStep
    \/ \E status \in Retcodes, created \in BOOLEAN :
           \E doc \in OutputOf(status, created, ItemDocs) :
               ItemExtractorExit(status, created, doc)
    \/ \E resp \in ItemResponses : ItemSubmitResponse(resp)
    \/ \E created \in BOOLEAN : InterruptItem(created)
    \/ \E resp \in ManifestResponses : ManifestResponse(resp)

Spec == Init /\ [][Next]_vars

\* ------------------------------------------------------------ properties
FileModes == {"file", "directory"}

\* is_valid_uuid, tabulated over the strings of the tag
ValidTag == [u \in TagStrings |-> is_valid_uuid(u)]

\* scan_dir has returned its manifest
ScanDone == mode = "dataset" /\ di > Len(Walk)

\* C1: a call of process_file on a path that has a row in the ledger, whatever
\* its reason, starts no extractor, makes no request, creates no temporary
\* file and leaves the ledger as it was.
C1_SkipHasNoEffect ==
    [][(pc = "walking" /\ todo # <<>> /\ RowsOf(filelog, Head(todo)) > 0)
          => /\ pc' = "walking"
             /\ filepath' = Head(todo)
             /\ outcome' = "skip"
             /\ filelog' = filelog
             /\ tmpfiles' = tmpfiles
             /\ ntmp' = ntmp
             /\ tmpname' = NoTmp
             /\ response' = NoResponse]_vars

\* a file is skipped whose only row holds a failure reason
C1_Witness ==
    /\ pc = "walking"
    /\ outcome = "skip"
    /\ filelog[<<filepath, "nombid">>] = 1
    /\ filelog[<<filepath, NoReason>>] = 0

\* C2: once a call of process_file has ended, by a return or by an exception
\* (a transport error, a missing key), its temporary output file does not
\* exist.
C2_TempFileGone ==
    (mode \in FileModes /\ pc \in {"walking", "idle"} /\ outcome \notin {"none", "interrupt"})
        => tmpname \notin tmpfiles

\* C3: when the server answers the submission with a status that is no 2xx,
\* the path still gets a row without a reason; and a path that has such a row
\* is never extracted nor submitted again by process_file.
C3_FailedSubmitStillLogged ==
    /\ (/\ mode \in FileModes
        /\ response.kind = "status"
        /\ ~(response.code >= 200 /\ response.code <= 299))
           => /\ filelog[<<filepath, NoReason>>] > 0
              /\ pc \in {"walking", "idle"}
              /\ retcode = <<0>>
              /\ recid # NoRecid
    /\ \A p \in AllFiles :
           filelog[<<p, NoReason>>] > 0 => ~(pc \in {"extracting", "submitting"} /\ filepath = p)

\* the submission of a file was answered 404, and the file is logged a success
C3_Witness ==
    /\ mode \in FileModes
    /\ outcome = "submit_failed"
    /\ response.kind = "status"
    /\ response.code = 404
    /\ filelog[<<filepath, NoReason>>] = 1

\* C4: when the extractor of process_file exits with a status other than 0, 1
\* and 2, no row is written and no submission is made; and process_file on a
\* path without a row starts the extractor.
C4_UnknownExitNotLogged ==
    [][/\ (pc = "extracting" /\ retcode' # <<>> /\ retcode'[1] \notin {0, 1, 2})
             => /\ filelog' = filelog
                /\ pc' = "walking"
                /\ response' = NoResponse
                /\ RowsOf(filelog', filepath') = 0
       /\ (pc = "walking" /\ todo # <<>> /\ RowsOf(filelog, Head(todo)) = 0)
             => /\ pc' = "extracting"
                /\ filepath' = Head(todo)]_vars

\* the extractor exited with a negative status, and the path has no row
C4_Witness ==
    /\ mode \in FileModes
    /\ pc = "walking"
    /\ retcode # <<>>
    /\ retcode[1] < 0
    /\ RowsOf(filelog, filepath) = 0

\* C5: when the extractor of process_file exits 0 and the tag of the parsed
\* output, one string or a list, holds no valid UUID, no submission is made
\* and the path has no row.
C5_NoValidUuidNotLogged ==
    (/\ mode \in FileModes
     /\ retcode = <<0>>
     /\ features.kind = "tags"
     /\ \A i \in 1..Len(AsList(features)) : ~ValidTag[AsList(features)[i]])
        => /\ pc \in {"walking", "idle"}
           /\ outcome = "badmbid"
           /\ recid = NoRecid
           /\ response = NoResponse
           /\ RowsOf(filelog, filepath) = 0

\* the tag was a list of two strings, neither a valid UUID
C5_Witness ==
    /\ mode \in FileModes
    /\ outcome = "badmbid"
    /\ features.kind = "tags"
    /\ features.islist
    /\ Len(features.value) = 2

\* C6: when the extractor of process_file exits 0 and has written no output
\* file, the call ends with no submission and no row, and the path has no row.
C6_MissingOutputNotLogged ==
    [][(pc = "extracting" /\ outcome' = "nofile")
          => /\ retcode' = <<0>>
             /\ features' = NoDoc
             /\ filelog' = filelog
             /\ pc' = "walking"
             /\ response' = NoResponse
             /\ tmpfiles' = tmpfiles
             /\ RowsOf(filelog', filepath') = 0]_vars

\* the extractor exited 0 without an output file
C6_Witness ==
    /\ mode \in FileModes
    /\ pc = "walking"
    /\ outcome = "nofile"
    /\ retcode = <<0>>

\* C7: in the manifest scan_dir returns, a directory other than the root has
\* a class if and only if submit_dataset_item returned an identifier for a
\* file directly inside it.
C7_ClassIffItem ==
    ScanDone =>
        \A d \in 1..Len(Walk) :
            Walk[d].dirName # RootDir =>
                ((\E c \in 1..Len(datasetdict.classes) :
                      datasetdict.classes[c].name = basename(Walk[d].dirName))
                 <=> (\E h \in 1..Len(itemUuidsGot) :
                          itemUuidsGot[h].path.dir = Walk[d].dirName))

\* the walk is over: the files of class a got no identifier, the file of
\* class b got one, and the manifest holds class b alone
C7_Witness ==
    /\ ScanDone
    /\ Len(datasetdict.classes) = 1
    /\ datasetdict.classes[1].name = "b"

\* C8: generate_dataset posts the manifest at most once, after the walk is
\* over, and only when the manifest holds a class; with no class it posts
\* nothing and the run ends normally.
C8_ManifestOnceAfterWalk ==
    /\ manifestPosts <= 1
    /\ (pc = "manifest_submitting") => (manifestPosts = 1)
    /\ (manifestPosts = 1)
           => /\ ScanDone
              /\ Len(datasetdict.classes) > 0
              /\ pc \in {"manifest_submitting", "idle"}
    /\ (ScanDone /\ Len(datasetdict.classes) = 0)
           => /\ manifestPosts = 0
              /\ pc = "idle"
              /\ exit = "ok"

\* a dataset run ended normally after it posted its manifest
C8_Witness ==
    /\ mode = "dataset"
    /\ pc = "idle"
    /\ exit = "ok"
    /\ manifestPosts = 1

\* C9: when a run has ended on a Ctrl-C during an extraction, the temporary
\* output file of that extraction does not exist.
C9_InterruptCleansUp ==
    (pc = "idle" /\ exit = "interrupt") => tmpname \notin tmpfiles

\* C10: submit_dataset_item yields an identifier if and only if the status is
\* 200 and the body parses; for another status and for a transport error it
\* yields none and scan_dir goes on with the next file.
C10_ItemSubmitNeverAborts ==
    (mode = "dataset" /\ manifestPosts = 0 /\ response.kind # "none")
        => /\ (outcome = "Get UUID")
                  <=> (response.kind = "status" /\ response.code = 200
                          /\ response.body # "unparsable")
           /\ (response.kind # "status" \/ response.code # 200)
                  => (outcome = "NoUUID" /\ pc = "scanning")

\* C11: a directory run that has ended otherwise than by a Ctrl-C has called
\* process_file on every file under the root whose lowercase extension is
\* allowed, whatever happened to the files visited before.
C11_OnlyInterruptStops ==
    (mode = "directory" /\ pc = "idle" /\ exit # "interrupt") => todo = <<>>

\* C12: whenever process_file has read a tag, one string or a list of strings,
\* the identifier it submits the features under is the first entry, in the
\* order of the tag, that is a valid UUID, the invalid entries before it being
\* skipped and one string counting as a list of one; a submission is made
\* exactly when there is such an entry.
C12_FirstValidUuid ==
    (mode \in FileModes /\ features.kind = "tags") =>
        LET ids == IF features.islist THEN features.value ELSE <<features.value>>
            valid == {i \in 1..Len(ids) : ValidTag[ids[i]]}
        IN  IF valid = {}
            THEN recid = NoRecid /\ response = NoResponse /\ pc # "submitting"
            ELSE /\ \E i \in valid : recid = ids[i] /\ \A j \in valid : i <= j
                 /\ (pc = "submitting" \/ response # NoResponse)

\* the tag is ["not-a-uuid", "123e4567-e89b-12d3-a456-426614174000"] and the
\* features are being submitted under the second entry
C12_Witness ==
    /\ mode \in FileModes
    /\ pc = "submitting"
    /\ features.kind = "tags"
    /\ features.islist
    /\ features.value = <<NotAUuid, UuidA>>
    /\ recid = UuidA

\* C13: when the extractor of process_file exits, exit status 1 adds exactly
\* one row, of reason "extractor", and exit status 2 exactly one row, of reason
\* "nombid"; in both cases, and for every status other than 0, the call ends
\* with nothing parsed and no submission: only exit status 0 goes on to the
\* parsing of the output.
C13_ExitStatusOutcome ==
    [][(pc = "extracting" /\ retcode' # <<>>)
          => /\ (retcode'[1] = 1)
                   => /\ filelog' = [filelog EXCEPT ![<<filepath, "extractor">>] = @ + 1]
                      /\ RowsOf(filelog', filepath) = 1
                      /\ outcome' = "extractor"
             /\ (retcode'[1] = 2)
                   => /\ filelog' = [filelog EXCEPT ![<<filepath, "nombid">>] = @ + 1]
                      /\ RowsOf(filelog', filepath) = 1
                      /\ outcome' = "nombid"
             /\ (retcode'[1] # 0)
                   => /\ pc' = "walking"
                      /\ features' = NoDoc
                      /\ recid' = NoRecid
                      /\ response' = NoResponse
                      /\ outcome' \in {"extractor", "nombid", "unknown"}
             /\ (pc' = "submitting" \/ features' # NoDoc \/ outcome' \in {"json", "badmbid"})
                   => retcode' = <<0>>]_vars

\* a directory run has logged one file for exit status 1 and another for exit
\* status 2, one row each
C13_Witness ==
    /\ mode = "directory"
    /\ \E p, q \in AllFiles :
           /\ filelog[<<p, "extractor">>] = 1 /\ RowsOf(filelog, p) = 1
           /\ filelog[<<q, "nombid">>] = 1 /\ RowsOf(filelog, q) = 1
           /\ filepath = q
           /\ retcode = <<2>>

\* C14: process_file writes a row of reason "json" only in the step where the
\* extractor has exited 0 and the parsing of its output file fails, with no
\* identifier chosen and no submission made; a failure raised while the
\* features are submitted writes no such row.
C14_JsonRowOnlyOnParseFailure ==
    [][(\E p \in AllFiles : filelog'[<<p, "json">>] > filelog[<<p, "json">>])
          => /\ pc = "extracting"
             /\ retcode' = <<0>>
             /\ features' = NoDoc
             /\ recid' = NoRecid
             /\ response' = NoResponse]_vars

\* C15: in a dataset run, once scan_dir is done with a file and before it goes
\* on to the next one, the temporary output file made for that file does not
\* exist, whatever the exit status of the extractor, the presence of the
\* output and the answer to the item submission were.
C15_ItemTempFileGone ==
    (mode = "dataset" /\ pc = "scanning" /\ outcome # "none") => tmpname \notin tmpfiles

\* C16: no step of a dataset run writes to the ledger, the steps included
\* where an item fails (exit status 1, another non-zero status, no output
\* file, no identifier returned): the ledger after the run is the ledger
\* before it.
C16_DatasetLeavesLedger ==
    [][(pc \in {"scanning", "item_extracting", "item_submitting", "manifest_submitting"})
          => filelog' = filelog]_vars

\* C17: no step removes or changes a row of the ledger: a step that changes
\* the ledger adds one row, for the file being handled; and when it is a step
\* of the single-file pipeline (a single-file or a directory run) that file had
\* no row before and the call of process_file ends with it: a call adds at
\* most one row and a path that has a row never gets a second one from
\* process_file.
C17_LedgerAppendOnly ==
    [][(filelog' # filelog)
          => /\ \E reason \in Reasons :
                    filelog' = [filelog EXCEPT ![<<filepath, reason>>] = @ + 1]
             /\ filepath' = filepath
             /\ (pc \in {"walking", "extracting", "submitting"})
                   => /\ RowsOf(filelog, filepath) = 0
                      /\ RowsOf(filelog', filepath) = 1
                      /\ pc' = "walking"]_vars

\* a directory run has ended that skipped every allowed file, each of them
\* holding the one row an earlier run gave it
C17_Witness ==
    /\ mode = "directory"
    /\ pc = "idle"
    /\ exit = "ok"
    /\ outcome = "skip"
    /\ ntmp = Len(DirectoryFiles(1, 1))
    /\ \A i \in 1..Len(DirectoryFiles(1, 1)) : RowsOf(filelog, DirectoryFiles(1, 1)[i]) = 1

\* C18: a row without a reason is written only by the step that receives the
\* answer to the one submission of the same call of process_file, after the
\* extractor exited 0, its output parsed and a valid UUID was found in it; a
\* call makes at most one submission, which starts when the extractor has
\* exited and with which the call ends; and no row is written before the
\* extractor has exited.
C18_SuccessRowAfterSubmission ==
    [][/\ (filelog' # filelog /\ filelog'[<<filepath, NoReason>>] > filelog[<<filepath, NoReason>>])
             => /\ pc = "submitting"
                /\ retcode = <<0>>
                /\ features.kind = "tags"
                /\ recid # NoRecid
                /\ ValidTag[recid]
                /\ response = NoResponse
                /\ response'.kind = "status"
                /\ filepath' = filepath
       /\ (pc' = "submitting") => (pc = "extracting" /\ retcode' = <<0>> /\ response' = NoResponse)
       /\ (pc = "submitting") => (pc' \in {"walking", "idle"} /\ response' # NoResponse)
       /\ (pc = "walking" \/ (pc = "extracting" /\ retcode' = <<>>)) => filelog' = filelog]_vars

\* the one submission of a call was answered 200 and the file got its row
\* without a reason
C18_Witness ==
    /\ mode \in FileModes
    /\ pc = "walking"
    /\ outcome = "done"
    /\ retcode = <<0>>
    /\ recid = UuidB
    /\ response = [kind |-> "status", code |-> 200]
    /\ filelog[<<filepath, NoReason>>] = 1
    /\ RowsOf(filelog, filepath) = 1

\* C19: the dataset pipeline does not consult the ledger.  A dataset run
\* starts its walk at the first directory; from where the walk stands, the
\* next step starts the extractor on the first file still ahead that lies
\* directly inside a directory other than the root, whatever rows the ledger
\* holds for it, and ends the walk only when no such file is ahead; the
\* handling of a file is followed by the file after it; and a run that ends
\* normally has walked every directory.
C19_DatasetIgnoresLedger ==
    [][LET Before(p, q) == p[1] < q[1] \/ (p[1] = q[1] /\ p[2] <= q[2])
           ahead ==
               {p \in UNION {{<<d, f>> : f \in 1..Len(Walk[d].fileNames)} : d \in 1..Len(Walk)} :
                   Walk[p[1]].dirName # RootDir /\ Before(<<di, fi>>, p)}
       IN  /\ (pc = "idle" /\ pc' = "scanning") => (di' = 1 /\ fi' = 1)
           /\ (pc = "scanning" /\ ahead # {})
                 => \E p \in ahead :
                        /\ \A q \in ahead : Before(p, q)
                        /\ pc' = "item_extracting"
                        /\ ntmp' = ntmp + 1
                        /\ di' = p[1]
                        /\ fi' = p[2]
                        /\ filepath' = join(Walk[p[1]].dirName, Walk[p[1]].fileNames[p[2]])
           /\ (pc = "scanning" /\ ahead = {})
                 => (pc' \in {"manifest_submitting", "idle"} /\ di' > Len(Walk))
           /\ (pc \in {"item_extracting", "item_submitting"} /\ pc' = "scanning")
                 => (di' = di /\ fi' = fi + 1)
           /\ (mode' = "dataset" /\ pc' = "idle" /\ exit' = "ok") => di' > Len(Walk)]_vars

\* a dataset run has run the extractor on a file that held the row of a
\* successful single-file run; the extractor exited 1
C19_Witness ==
    /\ mode = "dataset"
    /\ pc = "scanning"
    /\ retcode = <<1>>
    /\ filelog[<<filepath, NoReason>>] = 1
    /\ filelog[<<filepath, "extractor">>] = 1

\* C20: when the walk of a dataset run has ended, the manifest holds, for each
\* directory other than the root, the identifiers the item submissions of the
\* files directly inside it returned, in the order the files were handled (and
\* no class when there is none); every class is such a directory; the
\* recordings of the manifest are as many as the identifiers returned; and no
\* file directly in the root is ever extracted or submitted.
C20_ManifestHoldsReturnedIds ==
    /\ (mode = "dataset" /\ pc \in {"item_extracting", "item_submitting"})
           => filepath.dir # RootDir
    /\ ScanDone =>
           LET classes == datasetdict.classes
               GotIn(dirName) ==
                   LET Inside(h) == h.path.dir = dirName
                   IN  SelectSeq(itemUuidsGot, Inside)
               RECURSIVE Total(_)
               Total(c) == IF c = 0 THEN 0 ELSE Len(classes[c].recordings) + Total(c - 1)
           IN  /\ \A d \in 1..Len(Walk) :
                      Walk[d].dirName # RootDir =>
                          LET got == GotIn(Walk[d].dirName)
                              named == {c \in 1..Len(classes) :
                                           classes[c].name = basename(Walk[d].dirName)}
                          IN  IF got = <<>> THEN named = {}
                              ELSE /\ Cardinality(named) = 1
                                   /\ \A c \in named :
                                          /\ Len(classes[c].recordings) = Len(got)
                                          /\ \A i \in 1..Len(got) :
                                                 classes[c].recordings[i] = got[i].itemuuid
               /\ \A c \in 1..Len(classes) :
                      \E d \in 1..Len(Walk) :
                          /\ Walk[d].dirName # RootDir
                          /\ classes[c].name = basename(Walk[d].dirName)
               /\ GotIn(RootDir) = <<>>
               /\ Total(Len(classes)) = Len(itemUuidsGot)

\* the walk is over: the two files of class a got identifiers u2 and u1, in
\* that order, the file of class b got none, and the manifest holds class a
\* with the two identifiers in that order
C20_Witness ==
    /\ ScanDone
    /\ Len(itemUuidsGot) = 2
    /\ Len(datasetdict.classes) = 1
    /\ datasetdict.classes[1].name = "a"
    /\ datasetdict.classes[1].recordings = <<"u2", "u1">>

====
